---------------------------- MODULE Spec2Model ----------------------------
(***************************************************************************)
(* A model of mopo's DSP utility functions (mopo/src/utils.h) and of the   *)
(* TextSelector widget (src/editor_components/text_selector.cpp).          *)
(*                                                                         *)
(*   SpecPure  the scalar functions: min/max/clamp in both backends,       *)
(*             iclamp, magnitudeToQ/qToMagnitude, quickertanh/quicktanh    *)
(*   SpecSel   the selector widget: paint geometry and pointer events      *)
(*   SpecSilent  one thread calling isSilent, one loop iteration per step, *)
(*             on memories of every combination of signed samples          *)
(*   SpecBuf   one thread calling isSilent/zeroBuffer/copyBuffer, one      *)
(*             loop iteration per step, on a flat memory                   *)
(*   SpecConc  two threads running one buffer call each, interleaved       *)
(***************************************************************************)
EXTENDS Integers, Sequences, FiniteSets, TLC

VARIABLES
    build,   \* compile-time / CPU configuration of the scalar backend
    res,     \* the last scalar call: function, arguments, returned value
    sel,     \* the TextSelector widget
    mem,     \* sample memory, one mopo_float per address
    th,      \* per thread: the buffer call in progress and its loop counter
    hist     \* what the finished calls did (snapshots, the last zeroBuffer)

vars == <<build, res, sel, mem, th, hist>>

(***************************************************************************)
(* Floating-point values.  A finite value is a sign bit and a magnitude,   *)
(* so that +0 and -0 are different values that compare equal.  Magnitudes  *)
(* are counted in units of EPSILON (utils.h:35), the silence threshold.    *)
(***************************************************************************)
MaxMag == 2

EPSILON == 1

FloatVals == [s : {0, 1}, m : 0..MaxMag]

Num(f) == IF f.s = 1 THEN -f.m ELSE f.m

PosZero == [s |-> 0, m |-> 0]

\* int -> mopo_float conversion (exact for the small integers used here)
IntToFloat(i) == IF i < 0 THEN [s |-> 1, m |-> -i] ELSE [s |-> 0, m |-> i]

\* The unsigned bit pattern of a value: the sign bit is the top bit, and for
\* finite values of one sign the pattern grows with the magnitude.
SignBit == MaxMag + 1

Bits(f) == f.s * SignBit + f.m

(***************************************************************************)
(* SSE2 scalar min/max.  MINSD/MINSS return the first operand only when it *)
(* is strictly less than the second, MAXSD/MAXSS only when it is strictly  *)
(* greater; in every other case (equal values, two zeros of either sign)   *)
(* the second operand is returned.                                         *)
(***************************************************************************)
mm_min(a, b) == IF Num(a) < Num(b) THEN a ELSE b

mm_max(a, b) == IF Num(a) > Num(b) THEN a ELSE b

\* _mm_max_sd applied to two __m128 values made by _mm_set_ss (utils.h:80):
\* the low 64-bit lane holds the float's 32 bits below 32 zero bits, which as
\* a double is a non-negative denormal ordered like the float's bit pattern.
\* With denormals-are-zero set both operands compare as zero.
mm_max_sd_on_ss(a, b, daz) == IF ~daz /\ Bits(a) > Bits(b) THEN a ELSE b

\* std::min(a, b) is (b < a) ? b : a, std::max(a, b) is (a < b) ? b : a.
std_min(a, b) == IF Num(b) < Num(a) THEN b ELSE a

std_max(a, b) == IF Num(a) < Num(b) THEN b ELSE a

sse_min_double(one, two) == mm_min(one, two)

sse_max_double(one, two) == mm_max(one, two)

sse_clamp_double_swapped(value, min, max) == mm_max(mm_min(value, min), max)

sse_clamp_double(value, min, max) == mm_min(mm_max(value, min), max)

sse_min_float(one, two) == mm_min(one, two)

sse_max_float(one, two, daz) == mm_max_sd_on_ss(one, two, daz)

sse_clamp_float(value, min, max) == mm_min(mm_max(value, min), max)

portable_min(one, two) == std_min(one, two)

portable_max(one, two) == std_max(one, two)

portable_clamp(value, min, max) == std_min(max, std_max(value, min))

iclamp(value, min, max) ==
    IntToFloat(IF value > max THEN max ELSE (IF value < min THEN min ELSE value))

\* The overload the build selects.
Widths == {"double", "float"}

min_of(b, w, one, two) ==
    IF ~b.sse2 THEN portable_min(one, two)
    ELSE IF w = "double" THEN sse_min_double(one, two)
    ELSE sse_min_float(one, two)

max_of(b, w, one, two) ==
    IF ~b.sse2 THEN portable_max(one, two)
    ELSE IF w = "double" THEN sse_max_double(one, two)
    ELSE sse_max_float(one, two, b.daz)

clamp_of(b, w, value, min, max) ==
    IF ~b.sse2 THEN portable_clamp(value, min, max)
    ELSE IF w = "double" THEN sse_clamp_double(value, min, max)
    ELSE sse_clamp_float(value, min, max)

\* #ifdef __SSE2__ (utils.h:56); daz is the MXCSR denormals-are-zero flag of the
\* calling thread, which only an SSE2 build reads.
SseBuild(daz) == [sse2 |-> TRUE, daz |-> daz]

PortableBuild == [sse2 |-> FALSE, daz |-> FALSE]

Builds == {SseBuild(TRUE), SseBuild(FALSE), PortableBuild}

(***************************************************************************)
(* Q <-> magnitude.  Values are fixed-point numbers counted in units of    *)
(* 1/QOne; QOne = 5 * 2^16 represents the magnitudes k/5 and the powers    *)
(* 2^-16 .. 2^4 exactly.                                                   *)
(***************************************************************************)
QOne == 5 * 65536

MAX_Q_POW == 4

MIN_Q_POW == -1

Abs(x) == IF x < 0 THEN -x ELSE x

RECURSIVE IntPow(_, _)
IntPow(b, n) == IF n = 0 THEN 1 ELSE b * IntPow(b, n - 1)

\* the largest r with r * r <= n
ISqrt(n) == CHOOSE r \in 0..n : r * r <= n /\ n < (r + 1) * (r + 1)

\* sqrt(1/2), rounded down to a multiple of 2^-9
SqrtHalf == (ISqrt(IntPow(2, 17)) * QOne) \div IntPow(2, 9)

\* ((s) + (f) * ((e) - (s))) for integer s, e and a fixed-point f
INTERPOLATE(s, e, f) == s * QOne + f * (e - s)

\* pow(2.0, e) for a fixed-point exponent e that is a whole number
pow_two(e) ==
    LET n == e \div QOne
    IN  IF n >= 0 THEN QOne * IntPow(2, n) ELSE QOne \div IntPow(2, -n)

\* pow(0.5, q) for a fixed-point q that is a whole number or a whole number
\* and a half
pow_half(q) ==
    IF q % QOne = 0 THEN QOne \div IntPow(2, q \div QOne)
    ELSE SqrtHalf \div IntPow(2, q \div QOne)

magnitudeToQ(magnitude) == pow_two(INTERPOLATE(MIN_Q_POW, MAX_Q_POW, magnitude))

qToMagnitude(q) == (pow_half(q) - MIN_Q_POW * QOne) \div (MAX_Q_POW - MIN_Q_POW)

\* the magnitudes k/5 of [0, 1]
Magnitudes == {k * (QOne \div 5) : k \in 0..5}

(***************************************************************************)
(* Soft clippers.  quickertanh is computed on exact fractions [n, d]       *)
(* (d > 0); quicktanh on fixed-point numbers in units of 1/TOne, with its  *)
(* five coefficients rounded to that grid.  Inputs are the multiples of    *)
(* 1/XDen up to MaxX/XDen.                                                 *)
(***************************************************************************)
MaxX == 24

XDen == 2

Frac(n, d) == [n |-> n, d |-> d]

FracAdd(a, b) == Frac(a.n * b.d + b.n * a.d, a.d * b.d)

FracMul(a, b) == Frac(a.n * b.n, a.d * b.d)

\* a / b, keeping the denominator positive
FracDiv(a, b) ==
    IF b.n < 0 THEN Frac(-(a.n * b.d), a.d * (-b.n)) ELSE Frac(a.n * b.d, a.d * b.n)

FracLeq(a, b) == a.n * b.d <= b.n * a.d

FracAbs(a) == Frac(Abs(a.n), a.d)

quickertanh(value) ==
    LET square == FracMul(value, value)
    IN  FracDiv(value,
                FracAdd(Frac(1, 1),
                        FracDiv(square, FracAdd(Frac(3, 1), FracDiv(square, Frac(5, 1))))))

TOne == 10 * 1000

QT_NUM_A == 24555

QT_NUM_B == 8932

QT_NUM_C == 8212

QT_DEN_D == 24451

QT_DEN_E == 8146

\* a * b of two fixed-point numbers, rounded down, without leaving 32 bits
TMul(a, b) ==
    LET a1 == a \div TOne
        a0 == a % TOne
        b1 == b \div TOne
        b0 == b % TOne
    IN  a1 * b1 * TOne + a1 * b0 + a0 * b1 + (a0 * b0) \div TOne

quicktanh(value) ==
    LET abs_value == Abs(value)
        square == TMul(value, value)
        num == TMul(value, QT_NUM_A + TMul(QT_NUM_A, abs_value)
                           + TMul(square, QT_NUM_B + TMul(QT_NUM_C, abs_value)))
        den == QT_DEN_D + TMul(QT_DEN_D + square,
                               Abs(value + TMul(TMul(QT_DEN_E, value), abs_value)))
    IN  Frac(num, den)

TanhInputs == (-MaxX)..MaxX


(***************************************************************************)
(* SpecPure: the scalar functions applied to inputs drawn from bounded     *)
(* sets.  res records the call and what it returned.                       *)
(***************************************************************************)
NoCall == [fn |-> "none", w |-> "double", args |-> <<>>, out |-> 0]

Returned(fn, w, args, out) == [fn |-> fn, w |-> w, args |-> args, out |-> out]

SelIdle == [minimum |-> 0, maximum |-> 0, width |-> 1, value |-> 0, x |-> 0,
            request |-> 0, event |-> "none", cells |-> 0, selected |-> 0]

InitPure ==
    /\ build \in Builds
    /\ res = NoCall
    /\ sel = SelIdle
    /\ mem = <<>>
    /\ th = <<>>
    /\ hist = <<>>

CallMin ==
    /\ \E w \in Widths, one \in FloatVals, two \in FloatVals :
           res' = Returned("min", w, <<one, two>>, min_of(build, w, one, two))
    /\ UNCHANGED <<build, sel, mem, th, hist>>

CallMax ==
    /\ \E w \in Widths, one \in FloatVals, two \in FloatVals :
           res' = Returned("max", w, <<one, two>>, max_of(build, w, one, two))
    /\ UNCHANGED <<build, sel, mem, th, hist>>

CallClamp ==
    /\ \E w \in Widths, value \in FloatVals, min \in FloatVals, max \in FloatVals :
           res' = Returned("clamp", w, <<value, min, max>>,
                           clamp_of(build, w, value, min, max))
    /\ UNCHANGED <<build, sel, mem, th, hist>>

CallIClamp ==
    /\ \E value \in (-MaxMag)..MaxMag, min \in (-MaxMag)..MaxMag,
          max \in (-MaxMag)..MaxMag :
           res' = Returned("iclamp", "int", <<value, min, max>>,
                           iclamp(value, min, max))
    /\ UNCHANGED <<build, sel, mem, th, hist>>

CallMagnitudeToQ ==
    /\ \E magnitude \in Magnitudes :
           res' = Returned("magnitudeToQ", "double", <<magnitude>>,
                           magnitudeToQ(magnitude))
    /\ UNCHANGED <<build, sel, mem, th, hist>>

\* qToMagnitude applied to the Q that magnitudeToQ has just returned; args
\* keeps that Q and the magnitude it came from.
CallQToMagnitude ==
    /\ res.fn = "magnitudeToQ"
    /\ res' = Returned("qToMagnitude", "double", <<res.out, res.args[1]>>,
                       qToMagnitude(res.out))
    /\ UNCHANGED <<build, sel, mem, th, hist>>

CallQuickertanh ==
    /\ \E k \in TanhInputs :
           res' = Returned("quickertanh", "double", <<Frac(k, XDen)>>,
                           quickertanh(Frac(k, XDen)))
    /\ UNCHANGED <<build, sel, mem, th, hist>>

CallQuicktanh ==
    /\ \E k \in TanhInputs :
           res' = Returned("quicktanh", "double", <<Frac(k, XDen)>>,
                           quicktanh((k * TOne) \div XDen))
    /\ UNCHANGED <<build, sel, mem, th, hist>>

NextPure ==
    \/ CallMin
    \/ CallMax
    \/ CallClamp
    \/ CallIClamp
    \/ CallMagnitudeToQ
    \/ CallQToMagnitude
    \/ CallQuickertanh
    \/ CallQuicktanh

SpecPure == InitPure /\ [][NextPure]_vars


(***************************************************************************)
(* Claims about the scalar functions (checked under SpecPure).             *)
(***************************************************************************)
\* what clamp/iclamp promise for value v, bounds lo <= hi and result r
ClampContract(v, lo, hi, r) ==
    /\ lo <= r /\ r <= hi
    /\ (lo <= v /\ v <= hi) => r = v
    /\ v < lo => r = lo
    /\ v > hi => r = hi

\* C1: for every value v and bounds lo <= hi, clamp(v, lo, hi) of the build's
\* backend (SSE2 double, SSE2 float, portable) and iclamp(v, lo, hi) return r
\* with lo <= r <= hi, r = v when v is in range, r = lo when v < lo and r = hi
\* when v > hi (values compared as numbers, so that -0 = +0).
C1_ClampInRange ==
    /\ (res.fn = "clamp" /\ Num(res.args[2]) <= Num(res.args[3])) =>
           ClampContract(Num(res.args[1]), Num(res.args[2]), Num(res.args[3]),
                         Num(res.out))
    /\ (res.fn = "iclamp" /\ res.args[2] <= res.args[3]) =>
           ClampContract(res.args[1], res.args[2], res.args[3], Num(res.out))

\* an SSE2 clamp of a value above a proper range has returned the upper bound
C1_Witness ==
    /\ res.fn = "clamp"
    /\ build.sse2
    /\ Num(res.args[2]) < Num(res.args[3])
    /\ Num(res.args[1]) > Num(res.args[3])
    /\ res.out = res.args[3]

\* the value the call recorded in res returns under build b
BackendOut(b) ==
    CASE res.fn = "min" -> min_of(b, res.w, res.args[1], res.args[2])
      [] res.fn = "max" -> max_of(b, res.w, res.args[1], res.args[2])
      [] res.fn = "clamp" -> clamp_of(b, res.w, res.args[1], res.args[2], res.args[3])

\* C7: the SSE2 and the portable backend of min, max and clamp return
\* bit-identical results for all finite inputs (+0 and -0 distinct, lo > hi
\* included), for the double and for the float overloads.
C7_BackendsBitIdentical ==
    res.fn \in {"min", "max", "clamp"} => \A b \in Builds : BackendOut(b) = res.out

\* the round trip may be off by rounding, here at most a thousandth
RoundTol == QOne \div 1000

\* C5: qToMagnitude(magnitudeToQ(m)) equals m, up to rounding, for the
\* magnitudes m = k/5 of [0, 1].
C5_RoundTrip ==
    res.fn = "qToMagnitude" => Abs(res.out - res.args[2]) <= RoundTol

\* C6: the output magnitude of quickertanh and of quicktanh never exceeds 1.
C6_BoundedByOne ==
    res.fn \in {"quickertanh", "quicktanh"} => FracLeq(FracAbs(res.out), Frac(1, 1))


(***************************************************************************)
(* SpecSel: the TextSelector widget.  sel holds the slider's inclusive     *)
(* range, its value and the widget's width; x, request and event record    *)
(* the last pointer event and the index it passed to setValue; cells and   *)
(* selected record what the last paint drew.                               *)
(***************************************************************************)
MaxMinimum == 1

MaxTypes == 3

MaxWidth == 4

\* float -> int conversion: toward zero.  The operands are small integers, so
\* the float product is exact and the rounded quotient stays on the same side
\* of every integer as the exact one.
TruncDiv(a, b) == IF a >= 0 THEN a \div b ELSE -((-a) \div b)

\* paint: num_types = getMaximum() - getMinimum() + 1
num_types(w) == w.maximum - w.minimum + 1

\* paint draws cell i over [i * cell_width, (i + 1) * cell_width) with
\* cell_width = getWidth() / num_types: the cell that holds position x
PaintedCell(w, x) ==
    CHOOSE i \in 0..(num_types(w) - 1) :
        i * w.width <= x * num_types(w) /\ x * num_types(w) < (i + 1) * w.width

\* Slider::setValue keeps the value inside [minimum, maximum]
setValue(w, index) ==
    IF index < w.minimum THEN w.minimum
    ELSE IF index > w.maximum THEN w.maximum ELSE index

\* int index = x * (getMaximum() + 1) / getWidth()
mouseIndex(w, x) == TruncDiv(x * (w.maximum + 1), w.width)

mouseEvent(w, x, event) ==
    [w EXCEPT !.x = x, !.event = event, !.request = mouseIndex(w, x),
              !.value = setValue(w, mouseIndex(w, x))]

InitSel ==
    /\ \E minimum \in 0..MaxMinimum, n \in 1..MaxTypes, width \in 1..MaxWidth :
         \E value \in minimum..(minimum + n - 1) :
           sel = [SelIdle EXCEPT !.minimum = minimum, !.maximum = minimum + n - 1,
                                 !.width = width, !.value = value]
    /\ build = PortableBuild
    /\ res = NoCall
    /\ mem = <<>>
    /\ th = <<>>
    /\ hist = <<>>

paint ==
    /\ sel' = [sel EXCEPT !.cells = num_types(sel), !.selected = sel.value]
    /\ UNCHANGED <<build, res, mem, th, hist>>

\* a press lands inside the widget
mouseDown ==
    /\ \E x \in 0..(sel.width - 1) : sel' = mouseEvent(sel, x, "mouseDown")
    /\ UNCHANGED <<build, res, mem, th, hist>>

\* a drag may leave the widget on either side
mouseDrag ==
    /\ sel.event \in {"mouseDown", "mouseDrag"}
    /\ \E x \in (-1)..sel.width : sel' = mouseEvent(sel, x, "mouseDrag")
    /\ UNCHANGED <<build, res, mem, th, hist>>

NextSel ==
    \/ paint
    \/ mouseDown
    \/ mouseDrag

SpecSel == InitSel /\ [][NextSel]_vars

\* C9: a pointer press or drag at position x requests the index
\* x * (maximum - minimum + 1) / width, truncated, for every inclusive range
\* [minimum, maximum]; a press inside the k-th painted cell requests index k.
C9_RequestedIndex ==
    sel.event \in {"mouseDown", "mouseDrag"} =>
        /\ sel.request = TruncDiv(sel.x * (sel.maximum - sel.minimum + 1), sel.width)
        /\ (0 <= sel.x /\ sel.x < sel.width) => sel.request = PaintedCell(sel, sel.x)


(***************************************************************************)
(* Buffer primitives.  mem is the sample memory, one value per address; a  *)
(* buffer is a base address and a size.  A call is a record: op and        *)
(* arguments, the loop counter i, pc ("loop" while the for loop runs,      *)
(* "done" once the call has returned), the returned value, and the         *)
(* addresses the call has read and written so far.  One step of a call is  *)
(* one evaluation of the loop test followed by one loop body or by the     *)
(* return.                                                                 *)
(***************************************************************************)
MemSize == 4

MaxLen == 2

SilentMemSize == 3

Memories(n, samples) == [0..(n - 1) -> samples]

\* a silent sample (+0) and an audible one
BufSamples == {PosZero, IntToFloat(2 * EPSILON)}

Idle == [op |-> "idle", buffer |-> 0, source |-> 0, size |-> 0, i |-> 0,
         pc |-> "done", ret |-> "none", reads |-> {}, writes |-> {}]

\* a call on entry, before the loop's first test
Enter(op, buffer, source, size) ==
    [op |-> op, buffer |-> buffer, source |-> source, size |-> size, i |-> 0,
     pc |-> "loop", ret |-> "none", reads |-> {}, writes |-> {}]

\* the addresses of buffer[0 .. size-1]; empty for size <= 0
Range(base, size) == {a \in base..(base + size - 1) : TRUE}

\* sizes from a negative one up to one element more than MaxLen
Sizes == (-1)..(MaxLen + 1)

\* pointer and size arguments that stay inside a memory of n addresses
Fits(n, base, size) == base \in 0..(n - 1) /\ base + size <= n

OneBufferCalls(n, op) ==
    {Enter(op, x[1], 0, x[2]) :
        x \in {y \in (0..(n - 1)) \X Sizes : Fits(n, y[1], y[2])}}

TwoBufferCalls(n, op) ==
    {Enter(op, x[1], x[2], x[3]) :
        x \in {y \in (0..(n - 1)) \X (0..(n - 1)) \X Sizes :
                  Fits(n, y[1], y[3]) /\ Fits(n, y[2], y[3])}}

\* copyBuffer and copyBufferf run the same loop, on doubles and on floats:
\* op "copyBuffer" stands for either.
CopyOps == {"copyBuffer"}

WriteOps == {"zeroBuffer"} \cup CopyOps

closeToZero_strict(value) == Num(value) < EPSILON /\ Num(value) > -EPSILON

closeToZero(value) == Num(value) <= EPSILON /\ Num(value) >= -EPSILON

\* for (int i = 0; i < size; ++i)
LoopTest(c) == c.i < c.size

\* isSilent's loop test and body, or its return true after the loop
isSilent_step(m, c) ==
    IF ~LoopTest(c) THEN [c EXCEPT !.pc = "done", !.ret = "true"]
    ELSE LET seen == [c EXCEPT !.reads = @ \cup {c.buffer + c.i}]
         IN  IF ~closeToZero(m[c.buffer + c.i])
             THEN [seen EXCEPT !.pc = "done", !.ret = "false"]
             ELSE [seen EXCEPT !.i = @ + 1]

zero_store_to_next(m, c) ==
    IF c.buffer + c.i + 1 \in DOMAIN m
    THEN [m EXCEPT ![c.buffer + c.i + 1] = PosZero]
    ELSE m

zero_store_skipping_first(m, c) ==
    IF c.i = 0 THEN m ELSE [m EXCEPT ![c.buffer + c.i] = PosZero]

\* buffer[i] = 0.0
zero_store(m, c) == [m EXCEPT ![c.buffer + c.i] = PosZero]

copy_store_to_next(m, c) ==
    IF c.buffer + c.i + 1 \in DOMAIN m
    THEN [m EXCEPT ![c.buffer + c.i + 1] = m[c.source + c.i]]
    ELSE m

copy_store_first_source(m, c) == [m EXCEPT ![c.buffer + c.i] = m[c.source]]

\* dest[i] = source[i]
copy_store(m, c) == [m EXCEPT ![c.buffer + c.i] = m[c.source + c.i]]

\* a void loop's test and body, or its return after the loop
write_step(c) ==
    IF ~LoopTest(c) THEN [c EXCEPT !.pc = "done", !.ret = "void"]
    ELSE [c EXCEPT !.i = @ + 1,
                   !.writes = @ \cup {c.buffer + c.i},
                   !.reads = IF c.op \in CopyOps THEN @ \cup {c.source + c.i} ELSE @]

\* one step of call c on memory m: the memory and the call after it
StepCall(m, c) ==
    CASE c.op = "isSilent" -> <<m, isSilent_step(m, c)>>
      [] c.op = "zeroBuffer" ->
            <<IF LoopTest(c) THEN zero_store(m, c) ELSE m, write_step(c)>>
      [] c.op \in CopyOps ->
            <<IF LoopTest(c) THEN copy_store(m, c) ELSE m, write_step(c)>>

\* the call run to its return without interruption
RECURSIVE RunCall(_, _)
RunCall(m, c) ==
    IF c.pc = "done" THEN <<m, c>>
    ELSE LET r == StepCall(m, c) IN RunCall(r[1], r[2])

Running(t, op) == th[t].op = op /\ th[t].pc = "loop"

SilentStep(t) ==
    /\ Running(t, "isSilent")
    /\ LoopTest(th[t])
    /\ th' = [th EXCEPT ![t] = StepCall(mem, th[t])[2]]
    /\ UNCHANGED <<build, res, sel, mem, hist>>

SilentReturnTrue(t) ==
    /\ Running(t, "isSilent")
    /\ ~LoopTest(th[t])
    /\ th' = [th EXCEPT ![t] = StepCall(mem, th[t])[2]]
    /\ UNCHANGED <<build, res, sel, mem, hist>>

ZeroStep(t) ==
    /\ Running(t, "zeroBuffer")
    /\ LoopTest(th[t])
    /\ mem' = StepCall(mem, th[t])[1]
    /\ th' = [th EXCEPT ![t] = StepCall(mem, th[t])[2]]
    /\ UNCHANGED <<build, res, sel, hist>>

CopyStep(t) ==
    /\ th[t].op \in CopyOps /\ th[t].pc = "loop"
    /\ LoopTest(th[t])
    /\ mem' = StepCall(mem, th[t])[1]
    /\ th' = [th EXCEPT ![t] = StepCall(mem, th[t])[2]]
    /\ UNCHANGED <<build, res, sel, hist>>

VoidReturn(t) ==
    /\ th[t].op \in WriteOps /\ th[t].pc = "loop"
    /\ ~LoopTest(th[t])
    /\ th' = [th EXCEPT ![t] = StepCall(mem, th[t])[2]]
    /\ UNCHANGED <<build, res, sel, mem, hist>>

(***************************************************************************)
(* hist: a record of what has happened, kept for the claims.               *)
(*   zeroed  <<buffer, size>> of the last finished zeroBuffer call whose   *)
(*           buffer no later finished call was given to write into, or <<>>*)
(*   mem0, calls0  the memory and the calls SpecConc started from          *)
(***************************************************************************)
NoHist == [zeroed |-> <<>>, mem0 |-> <<>>, calls0 |-> <<>>]

\* hist once the finished call c is accounted for
Log(h, c) ==
    IF c.op = "zeroBuffer" THEN [h EXCEPT !.zeroed = <<c.buffer, c.size>>]
    ELSE IF /\ c.op \in CopyOps
            /\ h.zeroed # <<>>
            /\ Range(c.buffer, c.size) \cap Range(h.zeroed[1], h.zeroed[2]) # {}
         THEN [h EXCEPT !.zeroed = <<>>]
    ELSE h

(***************************************************************************)
(* SpecSilent: one thread calling isSilent on buffers of a memory that     *)
(* holds every combination of sample values.                               *)
(***************************************************************************)
\* the one thread of SpecSilent and SpecBuf
Caller == {1}

InitSilent ==
    /\ mem \in Memories(SilentMemSize, FloatVals)
    /\ th = [t \in Caller |-> Idle]
    /\ hist = NoHist
    /\ build = PortableBuild
    /\ res = NoCall
    /\ sel = SelIdle

CallIsSilent(t) ==
    /\ th[t].pc = "done"
    /\ \E c \in OneBufferCalls(SilentMemSize, "isSilent") : th' = [th EXCEPT ![t] = c]
    /\ UNCHANGED <<build, res, sel, mem, hist>>

SilentThreadStep(t) ==
    \/ CallIsSilent(t)
    \/ SilentStep(t)
    \/ SilentReturnTrue(t)

NextSilent == \E t \in Caller : SilentThreadStep(t)

SpecSilent == InitSilent /\ [][NextSilent]_vars

(***************************************************************************)
(* SpecBuf: one thread making buffer calls one after another.              *)
(***************************************************************************)
BufCalls(n) ==
    OneBufferCalls(n, "isSilent") \cup OneBufferCalls(n, "zeroBuffer")
        \cup TwoBufferCalls(n, "copyBuffer")

InitBuf ==
    /\ mem \in Memories(MemSize, BufSamples)
    /\ th = [t \in Caller |-> Idle]
    /\ hist = NoHist
    /\ build = PortableBuild
    /\ res = NoCall
    /\ sel = SelIdle

\* the thread's next call; the call it has finished goes into hist
Call(t) ==
    /\ th[t].pc = "done"
    /\ \E c \in BufCalls(MemSize) : th' = [th EXCEPT ![t] = c]
    /\ hist' = Log(hist, th[t])
    /\ UNCHANGED <<build, res, sel, mem>>

BufThreadStep(t) ==
    \/ Call(t)
    \/ SilentStep(t)
    \/ SilentReturnTrue(t)
    \/ ZeroStep(t)
    \/ CopyStep(t)
    \/ VoidReturn(t)

NextBuf == \E t \in Caller : BufThreadStep(t)

SpecBuf == InitBuf /\ [][NextBuf]_vars

(***************************************************************************)
(* SpecConc: two threads, each running one buffer call, on buffers that    *)
(* are pairwise disjoint.  Every step of a call is one atomic step; the    *)
(* scheduler runs every thread that can take a step (weak fairness).       *)
(***************************************************************************)
Threads == {1, 2}

\* every address a call may touch
Footprint(c) ==
    Range(c.buffer, c.size) \cup
        (IF c.op \in CopyOps THEN Range(c.source, c.size) ELSE {})

\* the calls that are given at least one element
ConcCalls(n) == {c \in BufCalls(n) : c.size >= 1}

InitConc ==
    /\ mem \in Memories(MemSize, BufSamples)
    /\ th \in [Threads -> ConcCalls(MemSize)]
    /\ \A t \in Threads, u \in Threads :
           t # u => Footprint(th[t]) \cap Footprint(th[u]) = {}
    /\ hist = [NoHist EXCEPT !.mem0 = mem, !.calls0 = th]
    /\ build = PortableBuild
    /\ res = NoCall
    /\ sel = SelIdle

ThreadStep(t) ==
    \/ SilentStep(t)
    \/ SilentReturnTrue(t)
    \/ ZeroStep(t)
    \/ CopyStep(t)
    \/ VoidReturn(t)

NextConc == \E t \in Threads : ThreadStep(t)

SpecConc ==
    InitConc /\ [][NextConc]_vars /\ \A t \in Threads : WF_vars(ThreadStep(t))

(***************************************************************************)
(* Claims about the buffer primitives.                                     *)
(***************************************************************************)
Finished(t, op) == th[t].op = op /\ th[t].pc = "done"

\* the sample at address a lies in the closed band [-EPSILON, EPSILON]
InBand(a) == -EPSILON <= Num(mem[a]) /\ Num(mem[a]) <= EPSILON

\* the addresses of the buffer up to and including its first sample outside
\* the band
UpToFirstLoud(c) ==
    {a \in Range(c.buffer, c.size) :
        \A b \in Range(c.buffer, c.size) : b < a => InBand(b)}

\* C2: isSilent(buffer, length) returns true iff every buffer[i], 0 <= i <
\* length, satisfies -EPSILON <= buffer[i] <= EPSILON (true for length <= 0);
\* when it returns false it has read the buffer up to the first sample
\* outside the band and nothing after it.
C2_IsSilent ==
    Finished(1, "isSilent") =>
        /\ th[1].ret = "true" <=> \A a \in Range(th[1].buffer, th[1].size) : InBand(a)
        /\ th[1].size <= 0 => th[1].ret = "true" /\ th[1].reads = {}
        /\ th[1].ret = "false" => th[1].reads = UpToFirstLoud(th[1])

\* isSilent has returned false at the second of MaxLen + 1 elements, after a
\* first element on the band's edge, and has read none of the later elements
C2_Witness ==
    /\ Finished(1, "isSilent")
    /\ th[1].ret = "false"
    /\ th[1].size = MaxLen + 1
    /\ Num(mem[th[1].buffer]) = -EPSILON
    /\ th[1].reads = Range(th[1].buffer, 2)

Disjoint(c) == Range(c.buffer, c.size) \cap Range(c.source, c.size) = {}

\* C3: after copyBuffer(dest, source, n) on non-overlapping buffers has
\* returned, dest[i] = source[i] for every 0 <= i < n; a call with n <= 0
\* writes nothing (no step of it changes the memory).
C3_CopyBuffer ==
    /\ [](Finished(1, "copyBuffer") /\ Disjoint(th[1]) =>
            /\ \A i \in 0..(th[1].size - 1) :
                   mem[th[1].buffer + i] = mem[th[1].source + i]
            /\ th[1].size <= 0 => th[1].writes = {})
    /\ [][th[1].op = "copyBuffer" /\ th[1].size <= 0 /\ th[1].pc = "loop"
             => mem' = mem]_vars

\* a copy of MaxLen elements between disjoint buffers has returned and has
\* changed the destination's last element to the source's, which differs from
\* the source's first
C3_Witness ==
    /\ Finished(1, "copyBuffer")
    /\ Disjoint(th[1])
    /\ th[1].size = MaxLen
    /\ th[1].writes = Range(th[1].buffer, MaxLen)
    /\ mem[th[1].source] # mem[th[1].source + MaxLen - 1]
    /\ mem[th[1].buffer + MaxLen - 1] = mem[th[1].source + MaxLen - 1]

\* C4: isSilent(buffer, n) returns true when zeroBuffer(buffer, n) has
\* returned before it and no call in between was given a buffer to write
\* that overlaps it, whatever the memory held.
C4_ZeroThenSilent ==
    (Finished(1, "isSilent") /\ hist.zeroed = <<th[1].buffer, th[1].size>>)
        => th[1].ret = "true"

\* isSilent has returned on a zeroed buffer of MaxLen elements while another
\* part of the memory is audible
C4_Witness ==
    /\ Finished(1, "isSilent")
    /\ hist.zeroed = <<th[1].buffer, th[1].size>>
    /\ th[1].size = MaxLen
    /\ th[1].ret = "true"
    /\ \E a \in DOMAIN mem : ~InBand(a)

\* the addresses a step changed
Changed == {a \in DOMAIN mem : mem'[a] # mem[a]}

\* C10: a step of zeroBuffer(buffer, n) or copyBuffer(dest, source, n)
\* changes no element outside buffer[0 .. n-1] (none at all for n <= 0), a
\* copy between non-overlapping buffers changes no element of its source, and
\* no step of isSilent and no call entry changes any element.
C10_Frame ==
    [][/\ Changed # {} => th[1].op \in WriteOps /\ th[1].pc = "loop"
       /\ Changed \subseteq Range(th[1].buffer, th[1].size)
       /\ (th[1].op \in CopyOps /\ Disjoint(th[1])) =>
              Changed \cap Range(th[1].source, th[1].size) = {}]_vars

\* a zeroBuffer call has returned, and the element after its buffer is still
\* audible
C10_Witness ==
    /\ Finished(1, "zeroBuffer")
    /\ th[1].size >= 1
    /\ th[1].writes = Range(th[1].buffer, th[1].size)
    /\ th[1].buffer + th[1].size \in DOMAIN mem
    /\ ~InBand(th[1].buffer + th[1].size)

AllDone == \A t \in DOMAIN th : th[t].pc = "done"

\* the memory and the calls after the calls of hist.calls0 have run one after
\* another, in the given order, from memory hist.mem0
RECURSIVE RunInOrder(_, _, _)
RunInOrder(m, calls, order) ==
    IF order = <<>> THEN <<m, calls>>
    ELSE LET r == RunCall(m, calls[Head(order)])
         IN  RunInOrder(r[1], [calls EXCEPT ![Head(order)] = r[2]], Tail(order))

Orders == {<<1, 2>>, <<2, 1>>}

\* C8: calls that run concurrently on pairwise disjoint buffers all return,
\* and then the memory and every returned value are those of running the same
\* calls one after another, in either order.
C8_NoInterference ==
    /\ <>AllDone
    /\ [](AllDone =>
            \A order \in Orders :
                LET seq == RunInOrder(hist.mem0, hist.calls0, order)
                IN  /\ mem = seq[1]
                    /\ \A t \in Threads : th[t].ret = seq[2][t].ret)

\* a zeroBuffer and an isSilent that returned false have both finished, and
\* the memory has changed
C8_Witness ==
    /\ AllDone
    /\ \E t \in Threads, u \in Threads :
           /\ th[t].op = "zeroBuffer"
           /\ th[u].op = "isSilent" /\ th[u].ret = "false"
    /\ mem # hist.mem0

=============================================================================
